---------------------------- MODULE Spec2Model ----------------------------
(* A model of gui.py: the TextOptions record, the parameter form          *)
(* (TextOptions_GUI), and the bionic transform of GUI.process_text and     *)
(* GUI._process_word, painted into the output Text widget.                 *)
EXTENDS Integers, Sequences, FiniteSets, TLC

(***************************************************************************)
(* Bounds of the model.                                                    *)
(***************************************************************************)
\* longest content of the input box in SpecText
MaxTextLen == 5
\* longest content of the input box in Spec, where the box is edited by keystrokes
MaxEditLen == 2

(***************************************************************************)
(* Python numbers.  A number is [kind, num, den]:                          *)
(*   "int"  a Python int, num (den = 1);                                   *)
(*   "fin"  the finite value num/den (den > 0), arithmetic on it exact;    *)
(*   "max"  sys.float_info.max (num = 1) or its negation (num = -1), the   *)
(*          finite floats of largest magnitude;                            *)
(*   "inf"  +infinity (num = 1) or -infinity (num = -1);                   *)
(*   "nan"  not-a-number.                                                  *)
(***************************************************************************)
PyInt(i)  == [kind |-> "int", num |-> i, den |-> 1]
Fin(n, d) == [kind |-> "fin", num |-> n, den |-> d]
FloatMax  == [kind |-> "max", num |-> 1, den |-> 1]
NegFloatMax == [kind |-> "max", num |-> -1, den |-> 1]
PosInf    == [kind |-> "inf", num |-> 1, den |-> 1]
NegInf    == [kind |-> "inf", num |-> -1, den |-> 1]
NaN       == [kind |-> "nan", num |-> 0, den |-> 1]

\* type(v) of a value held by a TextOptions field
TypeOf(v) == IF v.kind = "int" THEN "int"
             ELSE IF v.kind \in {"fin", "max", "inf", "nan"} THEN "float"
             ELSE "str"

IsFinite(x) == x.kind \in {"fin", "max"}

\* x < y on finite floats (every comparison with NaN is false in Python; the
\* infinities are not compared by the program)
FloatLess(x, y) ==
    /\ IsFinite(x) /\ IsFinite(y)
    /\ IF x.kind = "max" THEN x.num < 0 /\ y # x
       ELSE IF y.kind = "max" THEN y.num > 0
       ELSE x.num * y.den < y.num * x.den
FloatLeq(x, y) == IsFinite(x) /\ IsFinite(y) /\ ~FloatLess(y, x)

\* the integer math.ceil(sys.float_info.max), a number of 309 digits; the program
\* only uses it as a slice index, where any value above every word length acts alike
CeilFloatMax == 1000000000

\* a value a call returns, or the exception it raises
Ok(v)      == [exc |-> "none", val |-> v]
Raise(e)   == [exc |-> e, val |-> 0]

\* float(val) on the text of an entry: the literals the model types, and what
\* Python's float() makes of each; anything else is not a number
ParseFloat(txt) ==
    CASE txt = "0"     -> Ok(Fin(0, 1))
      [] txt = "0.25"  -> Ok(Fin(1, 4))
      [] txt = "0.5"   -> Ok(Fin(1, 2))
      [] txt = "0.75"  -> Ok(Fin(3, 4))
      [] txt = "1"     -> Ok(Fin(1, 1))
      [] txt = "1.5"   -> Ok(Fin(3, 2))
      [] txt = "2"     -> Ok(Fin(2, 1))
      [] txt = "-0.25" -> Ok(Fin(-1, 4))
      [] txt = "-0.5"  -> Ok(Fin(-1, 2))
      [] txt = "-1"    -> Ok(Fin(-1, 1))
      [] txt = "3.7"   -> Ok(Fin(37, 10))
      [] txt = "12"    -> Ok(Fin(12, 1))
      [] txt = "-2.5"  -> Ok(Fin(-5, 2))
      [] txt = "1.7976931348623157e308"  -> Ok(FloatMax)
      [] txt = "-1.7976931348623157e308" -> Ok(NegFloatMax)
      [] txt = "1e400" -> Ok(PosInf)
      [] txt = "inf"   -> Ok(PosInf)
      [] txt = "-inf"  -> Ok(NegInf)
      [] txt = "nan"   -> Ok(NaN)
      [] OTHER         -> Raise("ValueError")

\* int(x) of a float: truncation toward zero; NaN and the infinities raise
IntOfFloat(x) ==
    CASE x.kind = "nan" -> Raise("ValueError")
      [] x.kind = "inf" -> Raise("OverflowError")
      [] x.kind = "max" -> Ok(PyInt(x.num * CeilFloatMax))
      [] OTHER -> Ok(PyInt(IF x.num >= 0 THEN x.num \div x.den
                                        ELSE -((-x.num) \div x.den)))

\* n * x for an int n >= 0 and a float x (line 198): the product of the largest
\* float by 2 or more overflows to infinity, 0 * inf is NaN
FloatMul(n, x) ==
    CASE x.kind = "nan" -> NaN
      [] x.kind = "inf" -> IF n = 0 THEN NaN ELSE x
      [] x.kind = "max" -> IF n = 0 THEN Fin(0, 1)
                           ELSE IF n = 1 THEN x
                           ELSE [kind |-> "inf", num |-> x.num, den |-> 1]
      [] OTHER -> Fin(n * x.num, x.den)

FloorDiv(num, den) == num \div den

\* the least integer >= num/den
CeilDiv(num, den) == -((-num) \div den)

\* math.ceil(x): raises on NaN and on the infinities
Ceil(x) ==
    CASE x.kind = "nan" -> Raise("ValueError")
      [] x.kind = "inf" -> Raise("OverflowError")
      [] x.kind = "max" -> Ok(x.num * CeilFloatMax)
      [] OTHER -> Ok(CeilDiv(x.num, x.den))

(***************************************************************************)
(* Python strings are sequences of one-character strings.                  *)
(***************************************************************************)
\* the index a slice bound i denotes in a sequence of length n: a negative
\* bound counts from the end, and the result is clamped into 0..n
SliceIndex(i, n) ==
    LET j == IF i < 0 THEN i + n ELSE i
    IN  IF j < 0 THEN 0 ELSE IF j > n THEN n ELSE j

\* word[:i]
SliceTo(word, i) == SubSeq(word, 1, SliceIndex(i, Len(word)))

NoWrapSliceFrom(word, i) ==
    SubSeq(word, (IF i < 0 THEN 0 ELSE IF i > Len(word) THEN Len(word) ELSE i) + 1, Len(word))

\* word[i:]
SliceFrom(word, i) == SubSeq(word, SliceIndex(i, Len(word)) + 1, Len(word))

\* GUI._process_word with self.textOptions.bionic_ratio = ratio
_process_word(word, ratio) ==
    LET idx_bold == Ceil(FloatMul(Len(word), ratio))
    IN  IF idx_bold.exc # "none" THEN Raise(idx_bold.exc)
        ELSE Ok(<<SliceTo(word, idx_bold.val), SliceFrom(word, idx_bold.val)>>)


\* the white space of str.split(), among the characters a text of the model holds
IsSpace(c) == c \in {" ", "\t", "\n", "\r"}

\* input_text.split("\n"): the pieces between the newlines, the empty ones kept
RECURSIVE SplitLines(_)
SplitLines(s) ==
    IF \A i \in 1..Len(s) : s[i] # "\n" THEN <<s>>
    ELSE LET k == CHOOSE i \in 1..Len(s) :
                      s[i] = "\n" /\ \A j \in 1..(i - 1) : s[j] # "\n"
         IN  <<SubSeq(s, 1, k - 1)>> \o SplitLines(SubSeq(s, k + 1, Len(s)))

\* paragraph.split(): the maximal runs of characters that are not white space
RECURSIVE SplitWords(_)
SplitWords(s) ==
    IF s = <<>> THEN <<>>
    ELSE IF IsSpace(s[1]) THEN SplitWords(Tail(s))
    ELSE LET stops == {i \in 1..Len(s) : IsSpace(s[i])}
             k == IF stops = {} THEN Len(s) + 1
                  ELSE CHOOSE i \in stops : \A j \in stops : i <= j
         IN  <<SubSeq(s, 1, k - 1)>> \o SplitWords(SubSeq(s, k, Len(s)))

(***************************************************************************)
(* The tk.Text widgets.  The content of a widget is the sequence of its    *)
(* characters, each with the tag it was inserted under ("" for none); the  *)
(* newline Tk keeps at the end of every Text widget is not part of it.     *)
(***************************************************************************)
\* widget.get(1.0, tk.END): the content and the final newline of the widget
TextGet(content) == content \o <<"\n">>

\* widget.insert(tk.END, chars, tag)
TextInsert(content, chars, tag) ==
    content \o [i \in 1..Len(chars) |-> [ch |-> chars[i], tag |-> tag]]

TextDeleteFirstChar(content) == IF content = <<>> THEN <<>> ELSE Tail(content)

\* widget.delete(1.0, tk.END)
TextDelete(content) == <<>>

\* one call of output_text.insert, as process_text makes it
Call(chars, tag) == [text |-> chars, tag |-> tag]

\* the state of the painting loop: the widget's content, the insert calls made so
\* far, and the exception that ended the loop
Painting(out, log) == [out |-> out, log |-> log, exc |-> "none"]

PaintInsert(st, chars, tag) ==
    [st EXCEPT !.out = TextInsert(st.out, chars, tag),
               !.log = Append(st.log, Call(chars, tag))]

\* lines 179-183: the loop over the words of one paragraph
RECURSIVE PaintWords(_, _, _)
PaintWords(st, list_words, ratio) ==
    IF list_words = <<>> THEN st
    ELSE LET parts == _process_word(Head(list_words), ratio)
         IN  IF parts.exc # "none" THEN [st EXCEPT !.exc = parts.exc]
             ELSE PaintWords(
                     PaintInsert(
                         PaintInsert(
                             PaintInsert(st, parts.val[1], "bionic_bold"),
                             parts.val[2], "bionic_normal"),
                         <<" ">>, ""),
                     Tail(list_words), ratio)

\* lines 165-185: the loop over the paragraphs
RECURSIVE PaintParagraphs(_, _, _)
PaintParagraphs(st, list_paragraphs, ratio) ==
    IF list_paragraphs = <<>> THEN st
    ELSE LET done == PaintWords(st, SplitWords(Head(list_paragraphs)), ratio)
         IN  IF done.exc # "none" THEN done
             ELSE PaintParagraphs(PaintInsert(done, <<"\n", "\n">>, ""),
                                  Tail(list_paragraphs), ratio)

(***************************************************************************)
(* The parameter form.                                                     *)
(***************************************************************************)
\* the attributes _auto_create_widgets finds: dir() without the dunder names and
\* without the exclusions "font" and "list_fonts", in dir()'s sorted order
list_attr == <<"bionic_ratio", "size", "spacing">>
Attrs == {list_attr[i] : i \in 1..Len(list_attr)}

\* TextOptions(): the defaults of the dataclass
DefaultTextOptions ==
    [font |-> "Aptos Display", size |-> PyInt(12), spacing |-> PyInt(1),
     bionic_ratio |-> Fin(1, 2)]

\* str(v) of the default values, as entry.insert(0, ...) shows them
Str(v) ==
    CASE v = PyInt(12)  -> "12"
      [] v = PyInt(1)   -> "1"
      [] v = Fin(1, 2)  -> "0.5"

\* "{}: {}".format(attr, val), kept as its two arguments
LabelText(attr, val) == <<attr, val>>

FloatForEveryType(val, attr_type) ==
    IF attr_type \in {"int", "float"} THEN
        [conv |-> ParseFloat(val), box |-> FALSE]
    ELSE [conv |-> Ok([kind |-> "str", num |-> 0, den |-> 1]), box |-> TRUE]

\* lines 84-89: the conversion of the entry's text by the attribute's type; box
\* tells that the else branch showed its message box
Convert(val, attr_type) ==
    IF attr_type = "int" THEN
        LET f == ParseFloat(val)
        IN  [conv |-> IF f.exc # "none" THEN f ELSE IntOfFloat(f.val), box |-> FALSE]
    ELSE IF attr_type = "float" THEN
        [conv |-> ParseFloat(val), box |-> FALSE]
    ELSE [conv |-> Ok([kind |-> "str", num |-> 0, den |-> 1]), box |-> TRUE]

\* _update_textOptionParams(attr, entry, label) on the record opts and the label
\* texts labels, the entry holding val: the record, the labels, the message box
\* shown ("none" when there is none) and the exception that leaves the method
UpdateParams(opts, labels, attr, val) ==
    LET c == Convert(val, TypeOf(opts[attr]))
    IN  IF c.conv.exc # "none" THEN
            [opts |-> opts, labels |-> labels, box |-> c.conv.exc, exc |-> "none"]
        ELSE
            [opts |-> [opts EXCEPT ![attr] = c.conv.val],
             labels |-> [labels EXCEPT ![attr] = LabelText(attr, c.conv.val)],
             box |-> IF c.box THEN "Invalid type for attribute." ELSE "none",
             exc |-> "none"]

\* lines 64-70: the forced update of every attribute at construction
RECURSIVE ForceUpdates(_, _, _, _)
ForceUpdates(opts, labels, entries, i) ==
    IF i > Len(list_attr) THEN [opts |-> opts, labels |-> labels]
    ELSE LET r == UpdateParams(opts, labels, list_attr[i], entries[list_attr[i]])
         IN  ForceUpdates(r.opts, r.labels, entries, i + 1)

(***************************************************************************)
(* The state of the application.                                           *)
(***************************************************************************)
VARIABLES
    input_text,     \* the content of the input Text widget
    output_text,    \* the content of the output Text widget
    textOptions,    \* the TextOptions record of the GUI
    entry,          \* the text of the entry of each attribute
    label,          \* the text of the label of each attribute
    tags,           \* the fonts of the tags bionic_bold and bionic_normal
    painted,        \* the insert calls of the last process_text
    cleared,        \* how many characters the last process_text deleted
    raised,         \* the exception that left the last handler, or "none"
    box,            \* the message box the last handler showed, or "none"
    op              \* the last event handled

vars == <<input_text, output_text, textOptions, entry, label, tags, painted,
          cleared, raised, box, op>>

\* the keys typed into the input box
Keys == {"a", " ", "\n"}
\* the characters of the texts SpecText starts from
Chars == {"a", "b", " ", "\n"}
\* the texts typed into the entries
ParamTexts == {"abc", "0.5", "-0.5", "3.7", "nan", "inf"}
\* the texts typed into each entry in Spec
FormEdits == [bionic_ratio |-> {"-0.5", "nan"}, size |-> {"3.7"}, spacing |-> {}]
\* the ratios SpecText starts from, as the texts that set them
RatioTexts == {"0", "0.25", "0.5", "0.75", "1", "1.5", "2", "-0.25", "-0.5", "-1",
               "1.7976931348623157e308", "-1.7976931348623157e308",
               "inf", "-inf", "nan"}

Texts(n) == UNION {[1..k -> Chars] : k \in 0..n}

\* the state GUI.__init__ leaves, the entries holding the texts entries
Constructed(entries) ==
    LET forced == ForceUpdates(DefaultTextOptions,
                               [a \in Attrs |-> LabelText(a, "")], entries, 1)
    IN  /\ textOptions = forced.opts
        /\ label = forced.labels
        /\ entry = entries
        /\ output_text = <<>>
        /\ tags = <<>>
        /\ painted = <<>>
        /\ cleared = 0
        /\ raised = "none"
        /\ box = "none"
        /\ op = <<"init", "">>

Init ==
    /\ input_text = <<>>
    /\ Constructed([a \in Attrs |-> Str(DefaultTextOptions[a])])

\* a key typed at the end of the input box
TypeChar(c) ==
    /\ Len(input_text) < MaxEditLen
    /\ input_text' = Append(input_text, c)
    /\ op' = <<"key", "">>
    /\ UNCHANGED <<output_text, textOptions, entry, label, tags, painted, cleared,
                   raised, box>>

\* the last character of the input box deleted
Backspace ==
    /\ input_text # <<>>
    /\ input_text' = SubSeq(input_text, 1, Len(input_text) - 1)
    /\ op' = <<"key", "">>
    /\ UNCHANGED <<output_text, textOptions, entry, label, tags, painted, cleared,
                   raised, box>>

\* the text of an entry replaced
TypeEntry(attr, txt) ==
    /\ entry[attr] # txt
    /\ entry' = [entry EXCEPT ![attr] = txt]
    /\ op' = <<"entry", attr>>
    /\ UNCHANGED <<input_text, output_text, textOptions, label, tags, painted,
                   cleared, raised, box>>

\* <Return> in the entry of attr: _update_textOptionParams
Return(attr) ==
    LET r == UpdateParams(textOptions, label, attr, entry[attr])
    IN  /\ textOptions' = r.opts
        /\ label' = r.labels
        /\ box' = r.box
        /\ raised' = r.exc
        /\ op' = <<"update", attr>>
        /\ UNCHANGED <<input_text, output_text, entry, tags, painted, cleared>>

\* the Process button, or <Control-Return> on it: process_text
Process ==
    LET font == <<textOptions.font, textOptions.size>>
        st == PaintParagraphs(Painting(TextDelete(output_text), <<>>),
                              SplitLines(TextGet(input_text)),
                              textOptions.bionic_ratio)
    IN  /\ tags' = [bionic_bold |-> Append(font, "bold"),
                    bionic_normal |-> Append(font, "normal")]
        /\ cleared' = Len(output_text) - Len(TextDelete(output_text))
        /\ output_text' = st.out
        /\ painted' = st.log
        /\ raised' = st.exc
        /\ box' = "none"
        /\ op' = <<"process", "">>
        /\ UNCHANGED <<input_text, textOptions, entry, label>>

EditForm == \E attr \in Attrs : \E txt \in FormEdits[attr] : TypeEntry(attr, txt)
ReturnForm == \E attr \in Attrs : Return(attr)
TypeKey == \E c \in Keys : TypeChar(c)

Next == TypeKey \/ Backspace \/ EditForm \/ ReturnForm \/ Process

Spec == Init /\ [][Next]_vars

\* the parameter form alone
EditParam == \E attr \in Attrs, txt \in ParamTexts : TypeEntry(attr, txt)
ReturnParam == \E attr \in Attrs : Return(attr)

NextParams == EditParam \/ ReturnParam

SpecParams == Init /\ [][NextParams]_vars

\* process_text on every text and every ratio
InitText ==
    /\ input_text \in Texts(MaxTextLen)
    /\ \E txt \in RatioTexts :
          Constructed([a \in Attrs |->
                          IF a = "bionic_ratio" THEN txt ELSE Str(DefaultTextOptions[a])])

NextText == Process

SpecText == InitText /\ [][NextText]_vars

(***************************************************************************)
(* What the last process_text read and painted.                            *)
(***************************************************************************)
ratio == textOptions.bionic_ratio
Processed == op[1] = "process"

IsBreak(call) == call.tag = "" /\ call.text = <<"\n", "\n">>
IsSpaceCall(call) == call.tag = "" /\ call.text = <<" ">>

\* the (boldPart, normalPart) pairs among the insert calls log, in order
SegmentsOf(log) ==
    LET bolds == SelectSeq(log, LAMBDA c : c.tag = "bionic_bold")
        normals == SelectSeq(log, LAMBDA c : c.tag = "bionic_normal")
    IN  [i \in 1..Len(bolds) |-> <<bolds[i].text, normals[i].text>>]

\* the insert calls of each paragraph that was painted to its paragraph break
RECURSIVE EmittedParagraphs(_)
EmittedParagraphs(log) ==
    IF \A i \in 1..Len(log) : ~IsBreak(log[i]) THEN <<>>
    ELSE LET k == CHOOSE i \in 1..Len(log) :
                      IsBreak(log[i]) /\ \A j \in 1..(i - 1) : ~IsBreak(log[j])
         IN  <<SubSeq(log, 1, k - 1)>> \o EmittedParagraphs(SubSeq(log, k + 1, Len(log)))

RECURSIVE Flatten(_)
Flatten(seqs) == IF seqs = <<>> THEN <<>> ELSE Head(seqs) \o Flatten(Tail(seqs))

\* the words process_text meets, in order, over all paragraphs
WordsRead ==
    LET paras == SplitLines(TextGet(input_text))
    IN  Flatten([i \in 1..Len(paras) |-> SplitWords(paras[i])])

Count(seq, Test(_)) == Len(SelectSeq(seq, Test))

\* the least integer k with k >= n * num / den, for 0 <= num/den <= 1
CeilOfProduct(n, num, den) ==
    CHOOSE k \in 0..n : k * den >= n * num /\ (k - 1) * den < n * num

(***************************************************************************)
(* C1.  Every pair of parts _process_word returned concatenates back to    *)
(* the word it was called on, at every ratio (below 0 and above 1 too):    *)
(* the pairs painted are those of the first words read, in order, and      *)
(* boldPart \o normalPart is the word.                                     *)
(***************************************************************************)
C1_Lossless ==
    Processed =>
        LET segs == SegmentsOf(painted)
        IN  /\ Len(segs) <= Len(WordsRead)
            /\ \A i \in 1..Len(segs) : segs[i][1] \o segs[i][2] = WordsRead[i]

\* a negative ratio split a word in the middle: both parts non-empty
C1_Witness ==
    /\ Processed
    /\ FloatLess(ratio, Fin(0, 1))
    /\ \E i \in 1..Len(SegmentsOf(painted)) :
          /\ SegmentsOf(painted)[i][1] # <<>>
          /\ SegmentsOf(painted)[i][2] # <<>>

(***************************************************************************)
(* C2.  process_text never raises, whatever the text and the ratio (NaN    *)
(* and the infinities included), and paints a split for every word; at a   *)
(* NaN ratio every bold part is empty.                                     *)
(***************************************************************************)
C2_Total ==
    Processed =>
        /\ raised = "none"
        /\ Len(SegmentsOf(painted)) = Len(WordsRead)
        /\ (ratio = NaN =>
               \A i \in 1..Len(SegmentsOf(painted)) : SegmentsOf(painted)[i][1] = <<>>)

(***************************************************************************)
(* C3.  The paragraphs process_text emits are as many as the               *)
(* newline-delimited pieces of the text of the input box (one for the      *)
(* empty text), and the segments of each are, in order, the words of that  *)
(* piece.  Stated for the runs that raise nothing.                         *)
(***************************************************************************)
C3_MirrorsInput ==
    (Processed /\ raised = "none") =>
        LET paras == SplitLines(input_text)
            emitted == EmittedParagraphs(painted)
        IN  /\ Len(emitted) = Len(paras)
            /\ \A i \in 1..Len(paras) :
                  LET segs == SegmentsOf(emitted[i])
                      words == SplitWords(paras[i])
                  IN  /\ Len(segs) = Len(words)
                      /\ \A j \in 1..Len(segs) : segs[j][1] \o segs[j][2] = words[j]

(***************************************************************************)
(* C4.  At a ratio num/den with 0 <= num/den <= 1, process_text raises     *)
(* nothing and every word w of length n is split into its first            *)
(* ceil(n * num / den) characters and the rest; so the bold part is empty  *)
(* at ratio 0 and the normal part is empty at ratio 1.                     *)
(***************************************************************************)
C4_CeilSplit ==
    (Processed /\ ratio.kind = "fin" /\ 0 <= ratio.num /\ ratio.num <= ratio.den) =>
        LET segs == SegmentsOf(painted)
        IN  /\ raised = "none"
            /\ Len(segs) = Len(WordsRead)
            /\ \A i \in 1..Len(segs) :
                  LET w == WordsRead[i]
                      k == CeilOfProduct(Len(w), ratio.num, ratio.den)
                  IN  /\ segs[i][1] = SubSeq(w, 1, k)
                      /\ segs[i][2] = SubSeq(w, k + 1, Len(w))
                      /\ (ratio.num = 0 => segs[i][1] = <<>>)
                      /\ (ratio.num = ratio.den => segs[i][2] = <<>>)

\* a word of five characters at ratio 0.5: ceil(2.5) = 3 of them bold
C4_Witness ==
    /\ Processed
    /\ ratio = Fin(1, 2)
    /\ \E i \in 1..Len(SegmentsOf(painted)) :
          /\ Len(WordsRead[i]) = 5
          /\ Len(SegmentsOf(painted)[i][1]) = 3
          /\ Len(SegmentsOf(painted)[i][2]) = 2

(***************************************************************************)
(* C5.  At a ratio below 0 the bold part of every word is empty and the    *)
(* normal part is the whole word.  Stated for the runs that raise nothing. *)
(***************************************************************************)
C5_NegativeClamped ==
    (Processed /\ raised = "none" /\ FloatLess(ratio, Fin(0, 1))) =>
        LET segs == SegmentsOf(painted)
        IN  /\ Len(segs) = Len(WordsRead)
            /\ \A i \in 1..Len(segs) :
                  segs[i][1] = <<>> /\ segs[i][2] = WordsRead[i]

(***************************************************************************)
(* C6.  At a finite ratio above 1 every word is split into the whole word  *)
(* as bold part and an empty normal part.                                  *)
(***************************************************************************)
C6_AboveOneClamped ==
    (Processed /\ FloatLess(Fin(1, 1), ratio)) =>
        LET segs == SegmentsOf(painted)
        IN  /\ Len(segs) = Len(WordsRead)
            /\ \A i \in 1..Len(segs) :
                  segs[i][1] = WordsRead[i] /\ segs[i][2] = <<>>

(***************************************************************************)
(* C7.  For a word and finite ratios r1 <= r2, the bold part at r1 is no   *)
(* longer than the bold part at r2.  Stated for r2 the ratio of the last   *)
(* process_text, every word it painted, and every r1 at which              *)
(* _process_word returns.                                                  *)
(***************************************************************************)
C7_Monotone ==
    (Processed /\ IsFinite(ratio)) =>
        \A txt \in RatioTexts :
            LET r1 == ParseFloat(txt).val
            IN  FloatLeq(r1, ratio) =>
                    \A i \in 1..Len(SegmentsOf(painted)) :
                        LET at1 == _process_word(WordsRead[i], r1)
                        IN  at1.exc = "none" =>
                                Len(at1.val[1]) <= Len(SegmentsOf(painted)[i][1])

(***************************************************************************)
(* C9.  Separators are painted only between elements: a paragraph of       *)
(* k >= 1 words holds k - 1 spaces, and the p paragraphs painted are       *)
(* followed by p - 1 paragraph breaks in all.  Stated for the runs that    *)
(* raise nothing, p being the paragraphs process_text looped over.         *)
(***************************************************************************)
C9_SeparatorsBetween ==
    (Processed /\ raised = "none") =>
        LET emitted == EmittedParagraphs(painted)
            p == Len(SplitLines(TextGet(input_text)))
        IN  /\ \A i \in 1..Len(emitted) :
                  LET k == Len(SegmentsOf(emitted[i]))
                  IN  k >= 1 => Count(emitted[i], IsSpaceCall) = k - 1
            /\ Count(painted, IsBreak) = p - 1
            /\ 2 * (p - 1) = Count(output_text, LAMBDA c : c.ch = "\n")

(***************************************************************************)
(* C8, one step.  A <Return> on an entry whose text is no number shows a message     *)
(* box, raises nothing and leaves the TextOptions record and the labels    *)
(* as they were; a <Return> on a text that converts stores the converted   *)
(* value in its attribute alone; no other step touches the record.  So     *)
(* size and spacing always hold ints and bionic_ratio the float of the     *)
(* last entry that converted.                                              *)
(***************************************************************************)
C8_Step ==
    /\ TypeOf(textOptions'.size) = "int"
    /\ TypeOf(textOptions'.spacing) = "int"
    /\ TypeOf(textOptions'.bionic_ratio) = "float"
    /\ op'[1] # "update" => textOptions' = textOptions /\ label' = label
    /\ \A a \in Attrs :
          op' = <<"update", a>> =>
              LET f == ParseFloat(entry[a])
              IN  /\ raised' = "none"
                  /\ f.exc # "none" => box' # "none"
                  /\ box' # "none" => textOptions' = textOptions /\ label' = label
                  /\ box' = "none" =>
                        /\ f.exc = "none"
                        /\ textOptions'[a] =
                              IF a = "bionic_ratio" THEN f.val ELSE IntOfFloat(f.val).val
                        /\ label'[a] = LabelText(a, textOptions'[a])
                        /\ \A b \in Attrs \ {a} :
                              textOptions'[b] = textOptions[b] /\ label'[b] = label[b]

\* C8: every step of the parameter form is such a step
C8_InvalidEntryKeepsOptions == [][C8_Step]_vars

\* a ratio that was set by a valid entry survives a <Return> on an invalid one
C8_Witness ==
    /\ op = <<"update", "bionic_ratio">>
    /\ ParseFloat(entry["bionic_ratio"]).exc # "none"
    /\ box # "none"
    /\ raised = "none"
    /\ textOptions.bionic_ratio = Fin(37, 10)
    /\ label["bionic_ratio"] = LabelText("bionic_ratio", Fin(37, 10))

(***************************************************************************)
(* C10.  Right after a process_text the content of the output box is what  *)
(* painting the current input text at the current ratio into an empty      *)
(* widget gives: it depends on nothing else, and nothing of what the box   *)
(* held before remains.                                                    *)
(***************************************************************************)
C10_OutputFromTextAndRatio ==
    Processed =>
        output_text =
            PaintParagraphs(Painting(<<>>, <<>>), SplitLines(TextGet(input_text)),
                            ratio).out

\* a process_text that cleared a longer output of an earlier one, at another ratio
\* than the default
C10_Witness ==
    /\ Processed
    /\ cleared > Len(output_text)
    /\ \E i \in 1..Len(output_text) : output_text[i].tag = "bionic_normal"
    /\ ratio # DefaultTextOptions.bionic_ratio

=============================================================================
